---- MODULE Spec2Model ----
(***************************************************************************)
(* A model of index.js, the TradingView news scraper: the recency check    *)
(* (isRecentArticle), the listing-page extraction and deduplication        *)
(* (trySelectors), the publish step (storeInWordPress), the sheet reader       *)
(* (getStockUrlsFromSheet) and the orchestrator (scrapeTradingViewNews).   *)
(*                                                                         *)
(* JavaScript strings are TLA+ strings; null/undefined is the sentinel     *)
(* string null, which no page text equals.  Instants are milliseconds      *)
(* counted from 2024-01-01T00:00:00Z instead of 1970 (the code only ever   *)
(* subtracts two instants, so the origin cancels).                         *)
(***************************************************************************)
EXTENDS Integers, Sequences, FiniteSets, TLC

VARIABLES
    now,            \* the wall clock read by `new Date()`
    irTimestamp,    \* isRecentArticle: argument timestamp of the last call
    irDaysBack,     \* isRecentArticle: argument daysBack of the last call
    irToday,        \* isRecentArticle: the clock value the last call read
    irResult,       \* isRecentArticle: "none" before any call, else "true"/"false"
    tsCards,        \* trySelectors: the article cards of the document of the last call
    tsSymbol,       \* trySelectors: argument symbol of the last call
    tsArticles,     \* trySelectors: `articles`, the records pushed before deduplication
    tsResult,       \* trySelectors: `uniqueArticles`, the list returned
    tsCalled,       \* trySelectors: whether a call has returned
    ecDoc,          \* extractArticleContent: the document of the article page
    ecPc,           \* extractArticleContent: where the call is ("idle" when there is none)
    ecSel,          \* extractArticleContent: position in contentSelectors of the loop
    ecTrace,        \* extractArticleContent: what was queried so far, in order (observation)
    ecGate,         \* extractArticleContent: requiresLogin, "none" before the gate answered
    ecResult,       \* extractArticleContent: the value returned
    pc,             \* scrapeTradingViewNews: the await it is at
    wpApiUrl,       \* CONFIG.wpApiUrl
    browserOpen,    \* the browser is launched and not closed
    sheetRead,          \* what the sheet API answered: authorize, headerGet, headers
    sheetError,     \* the error getStockUrlsFromSheet met, "none" when none
    stockUrls,      \* stockUrls
    stockIdx,       \* position of stockEntry in stockUrls (1-based)
    articlesOnPage, \* articlesOnPage
    articleIdx,     \* position of article in articlesOnPage (1-based)
    articlePageOpen,            \* number of article pages opened and not closed
    articlesStoredForThisStock, \* articlesStoredForThisStock
    skippedDueToLogin,          \* skippedDueToLogin
    content,        \* content, the value extractArticleContent returned
    stored,         \* stored, the value storeInWordPress returned
    art,            \* what happened to the article being processed (observation)
    effects,        \* the kinds of request made so far: "goto", "newPage", "post" (observation)
    navFailed,      \* the positions of the stocks whose listing navigation failed (observation)
    failedSteps     \* the steps taken on a stock of navFailed, as <<step, stockIdx>> (observation)

recentVars == <<irTimestamp, irDaysBack, irToday, irResult>>
selectorVars == <<tsCards, tsSymbol, tsArticles, tsResult, tsCalled>>
contentVars == <<ecDoc, ecPc, ecSel, ecTrace, ecGate, ecResult>>
targetVars == <<articlesOnPage, articleIdx, articlesStoredForThisStock, skippedDueToLogin>>
articleVars == <<articlePageOpen, content, stored, art>>
observed == <<effects, navFailed, failedSteps>>
runVars == <<pc, wpApiUrl, browserOpen, sheetRead, sheetError, stockUrls, stockIdx,
             targetVars, articleVars, observed>>

vars == <<now, recentVars, selectorVars, contentVars, runVars>>

-----------------------------------------------------------------------------
(* Bounds of the model *)

MaxWindow == 3      \* largest lookback window passed to isRecentArticle
MaxTicks == 1       \* how many half-day steps the clock may advance
MaxCards == 3       \* most article cards of a document handed to trySelectors alone
MaxListing == 2     \* most article cards on a listing page visited by a run
MaxTargets == 2     \* most data rows of the sheet

-----------------------------------------------------------------------------
(* JavaScript values *)

null == "<null>"

Truthy(v) == v /= null /\ v /= ""

\* a || b
Or(a, b) == IF Truthy(a) THEN a ELSE b

Char(s, i) == SubSeq(s, i, i)

\* String.prototype.includes
Includes(s, p) ==
    \E i \in 1..(Len(s) - Len(p) + 1) : SubSeq(s, i, i + Len(p) - 1) = p

UpperChars == "ABCDEFGHIJKLMNOPQRSTUVWXYZ"
LowerChars == "abcdefghijklmnopqrstuvwxyz"

LowerChar(c) ==
    IF \E i \in 1..Len(UpperChars) : Char(UpperChars, i) = c
    THEN Char(LowerChars, CHOOSE i \in 1..Len(UpperChars) : Char(UpperChars, i) = c)
    ELSE c

\* String.prototype.toLowerCase, one half of the string after the other
RECURSIVE ToLowerCase(_)
ToLowerCase(s) ==
    IF Len(s) = 0 THEN ""
    ELSE IF Len(s) = 1 THEN LowerChar(s)
    ELSE ToLowerCase(SubSeq(s, 1, Len(s) \div 2))
            \o ToLowerCase(SubSeq(s, (Len(s) \div 2) + 1, Len(s)))

\* String.prototype.trim (spaces are the only white space of the model's texts)
RECURSIVE TrimLeft(_)
TrimLeft(s) ==
    IF s /= "" /\ Char(s, 1) = " " THEN TrimLeft(SubSeq(s, 2, Len(s))) ELSE s

RECURSIVE TrimRight(_)
TrimRight(s) ==
    IF s /= "" /\ Char(s, Len(s)) = " " THEN TrimRight(SubSeq(s, 1, Len(s) - 1)) ELSE s

Trim(s) == TrimRight(TrimLeft(s))

-----------------------------------------------------------------------------
(* Dates *)

MsPerDay == 86400000
MsPerHour == MsPerDay \div 24

Digits == "0123456789"

IsDigit(c) == \E i \in 1..Len(Digits) : Char(Digits, i) = c

DigitVal(c) == (CHOOSE i \in 1..Len(Digits) : Char(Digits, i) = c) - 1

TwoDigits(s, i) == 10 * DigitVal(Char(s, i)) + DigitVal(Char(s, i + 1))

NaN == [valid |-> FALSE, ms |-> 0]

\* new Date(s) for a string s: the instant of an ISO date-time of January 2024
\* written "2024-01-DDTHH:00:00Z", and Invalid Date (time value NaN) for
\* any other text of the model.
DateParse(s) ==
    IF /\ Len(s) = 20
       /\ SubSeq(s, 1, 8) = "2024-01-"
       /\ Char(s, 11) = "T"
       /\ SubSeq(s, 14, 20) = ":00:00Z"
       /\ \A i \in {9, 10, 12, 13} : IsDigit(Char(s, i))
       /\ TwoDigits(s, 9) \in 1..31
       /\ TwoDigits(s, 12) \in 0..23
    THEN [valid |-> TRUE,
          ms |-> (TwoDigits(s, 9) - 1) * MsPerDay + TwoDigits(s, 12) * MsPerHour]
    ELSE NaN

\* the instants the clock of the model shows: 2024-01-10T12:00Z and later half days
Clock0 == 9 * MsPerDay + 12 * MsPerHour
HalfDay == 12 * MsPerHour
Clocks == {Clock0 + k * HalfDay : k \in 0..MaxTicks}

\* timestamps a page or a caller may hand over
TimestampPool ==
    { null, "", "not a date", "yesterday",
      "2024-01-11T06:00:00Z",      \* in the future of Clock0
      "2024-01-10T12:00:00Z",      \* exactly Clock0
      "2024-01-10T00:00:00Z",
      "2024-01-09T00:00:00Z",
      "2024-01-08T12:00:00Z",
      "2024-01-08T00:00:00Z",
      "2024-01-07T12:00:00Z",
      "2024-01-07T00:00:00Z",
      "2024-01-05T00:00:00Z" }

\* the mutant of isRecentArticle: rounds the age to the nearest day instead of flooring it
IsRecentArticleRounded(timestamp, daysBack, today) ==
    IF ~Truthy(timestamp) THEN FALSE
    ELSE LET articleDate == DateParse(timestamp)
         IN IF ~articleDate.valid THEN FALSE
            ELSE ((today - articleDate.ms) + (MsPerDay \div 2)) \div MsPerDay <= daysBack

\* isRecentArticle(timestamp, daysBack) with `new Date()` = today
IsRecentArticle(timestamp, daysBack, today) ==
    IF ~Truthy(timestamp) THEN FALSE
    ELSE LET articleDate == DateParse(timestamp)
         IN IF ~articleDate.valid
            THEN FALSE      \* Math.floor(NaN) <= daysBack is false
            ELSE (today - articleDate.ms) \div MsPerDay <= daysBack

-----------------------------------------------------------------------------
(* The document of a listing page, as trySelectors queries it *)

HeadlineSelectors ==
    << "[data-overflow-tooltip-text]", "[data-qa-id=news-headline-title]",
       "div[class*=title-]", "h3", "h4" >>

ProviderSelectors ==
    << "[class*=provider-]", "span[class*=provider]", "div[class*=source]" >>

TimeSelectors ==
    << "relative-time", "time", "[datetime]", "[class*=date-]", "[class*=time-]" >>

\* An element: the attributes trySelectors reads (null when absent) and its textContent.
NoElement ==
    [present |-> FALSE, tooltip |-> null, title |-> null, eventTime |-> null,
     datetime |-> null, dataTimestamp |-> null, textContent |-> ""]

Element(text) == [NoElement EXCEPT !.present = TRUE, !.textContent = text]

\* An article card: the element itself (own), the first descendant each selector
\* matches (q), element.href, the href of its first descendant anchor and of its
\* nearest ancestor anchor (null when there is none), and the src of every
\* descendant img[src*=".svg"].
Card(own, q, href, aHref, closestHref, imgs) ==
    [own |-> own, q |-> q, href |-> href, aHref |-> aHref,
     closestHref |-> closestHref, imgs |-> imgs]

\* element.querySelector(selector)
QuerySelector(card, selector) ==
    IF selector \in DOMAIN card.q THEN card.q[selector] ELSE NoElement

FedTime == "2024-01-10T00:00:00Z"

CardPool ==
    { \* a plain card: tooltip headline, provider, event-time, the card is the anchor
      Card(Element("Fed cuts ra..."),
           ("[data-overflow-tooltip-text]" :>
                [Element("Fed cuts ra...") EXCEPT !.tooltip = "Fed cuts rates"])
             @@ ("[class*=provider-]" :> Element(" Reuters "))
             @@ ("relative-time" :> [Element("12 hours ago") EXCEPT !.eventTime = FedTime]),
           "https://www.tradingview.com/news/fed-cuts", null, null, <<>>),
      \* the same story rendered by another node: headline in an h3, no provider
      Card(Element("  Fed cuts rates  12 hours ago"),
           ("h3" :> Element("  Fed cuts rates "))
             @@ ("time" :> [Element("") EXCEPT !.datetime = FedTime]),
           null, "https://www.tradingview.com/news/fed-cuts?source=top", null, <<>>),
      \* a restricted headline
      Card(Element(""),
           ("[data-qa-id=news-headline-title]" :>
                [Element("") EXCEPT !.title = "Premium Content: market outlook"])
             @@ ("time" :> [Element("") EXCEPT !.datetime = FedTime]),
           "https://www.tradingview.com/news/outlook", null, null, <<>>),
      \* symbol icons, link on an ancestor anchor, 2.5 days old at Clock0
      Card(Element("Apple beats estimates"),
           ("div[class*=title-]" :> Element("Apple beats estimates"))
             @@ ("div[class*=source]" :> Element("Dow Jones"))
             @@ ("[datetime]" :> [Element("") EXCEPT !.datetime = "2024-01-08T00:00:00Z"]),
           null, null, "https://www.tradingview.com/news/apple",
           << "https://s3-symbol-logo.tradingview.com/apple-inc.svg",
              "https://s3-symbol-logo.tradingview.com/country/US.svg?v=2" >>),
      \* no headline anywhere
      Card(Element("   "),
           ("h4" :> Element("  "))
             @@ ("time" :> [Element("") EXCEPT !.datetime = FedTime]),
           "https://www.tradingview.com/news/blank", null, null, <<>>),
      \* headline from the card's own title, first provider element empty,
      \* timestamp as text, 1.5 days old at Clock0
      Card([Element("") EXCEPT !.title = "Oil slips"],
           ("[class*=provider-]" :> Element("  "))
             @@ ("span[class*=provider]" :> Element("MoneyControl"))
             @@ ("time" :> Element(" "))
             @@ ("[class*=date-]" :> Element(" 2024-01-09T00:00:00Z ")),
           "https://www.tradingview.com/news/oil", null, null, <<>>),
      \* too old for the listing
      Card(Element("Gold rallies"),
           ("h3" :> Element("Gold rallies"))
             @@ ("[datetime]" :> [Element("") EXCEPT !.dataTimestamp = "2024-01-05T00:00:00Z"]),
           "https://www.tradingview.com/news/gold", null, null, <<>>),
      \* three and a half days old at Clock0
      Card(Element("Silver dips"),
           ("h4" :> Element("Silver dips"))
             @@ ("[class*=time-]" :> [Element("3 days ago") EXCEPT
                                        !.dataTimestamp = "2024-01-07T00:00:00Z"]),
           "https://www.tradingview.com/news/silver", null, null, <<>>),
      \* a relative time text that is no date
      Card(Element("Yen weakens"),
           ("h3" :> Element("Yen weakens"))
             @@ ("[class*=time-]" :> Element("yesterday")),
           "https://www.tradingview.com/news/yen", null, null, <<>>),
      \* no link
      Card(Element("Copper steady"),
           ("h3" :> Element("Copper steady"))
             @@ ("time" :> [Element("") EXCEPT !.datetime = FedTime]),
           null, null, null, <<>>) }

\* the lists of at most n cards
CardLists(n) == UNION { [1..k -> CardPool] : k \in 0..n }

\* the Symbol cells of the sheet: the symbol handed to trySelectors
SheetSymbols == {"NIFTY", "BAJAJ-AUTO"}

-----------------------------------------------------------------------------
(* trySelectors: the function evaluated in the listing page *)

\* the isRecentArticle declared inside the page function: no floor, no missing check
PageIsRecentArticle(timestamp, maxDaysAgo, today) ==
    LET articleDate == DateParse(timestamp)
    IN IF ~articleDate.valid
       THEN FALSE       \* NaN <= maxDaysAgo is false
       ELSE today - articleDate.ms <= maxDaysAgo * MsPerDay

\* the headline loop: the value held by `headline` when the loop ends
RECURSIVE HeadlineLoop(_, _, _)
HeadlineLoop(card, i, headline) ==
    IF i > Len(HeadlineSelectors) THEN headline
    ELSE LET h == QuerySelector(card, HeadlineSelectors[i])
         IN IF h.present
            THEN LET v == Or(Or(h.tooltip, h.title), Trim(h.textContent))
                 IN IF Truthy(v) THEN v ELSE HeadlineLoop(card, i + 1, v)
            ELSE HeadlineLoop(card, i + 1, headline)

ResolveHeadline(card) ==
    LET headline == HeadlineLoop(card, 1, null)
    IN IF Truthy(headline) THEN headline
       ELSE Or(Or(card.own.tooltip, card.own.title), Trim(card.own.textContent))

RestrictedIndicators ==
    { "sign in to read exclusive news", "login to read", "subscribe to read",
      "premium content", "members only", "exclusive news", "requires subscription" }

IsRestrictedHeadline(headline) ==
    \E indicator \in RestrictedIndicators : Includes(ToLowerCase(headline), indicator)

\* the provider loop: the value held by `provider` when the loop ends
RECURSIVE ProviderLoop(_, _, _)
ProviderLoop(card, i, provider) ==
    IF i > Len(ProviderSelectors) THEN provider
    ELSE LET el == QuerySelector(card, ProviderSelectors[i])
         IN IF el.present
            THEN LET v == Trim(el.textContent)
                 IN IF Truthy(v) THEN v ELSE ProviderLoop(card, i + 1, v)
            ELSE ProviderLoop(card, i + 1, provider)

ResolveProvider(card) == ProviderLoop(card, 1, null)

ResolveLink(card) == Or(Or(card.href, card.aHref), card.closestHref)

\* the timestamp loop: the value held by `timestamp` when the loop ends
RECURSIVE TimestampLoop(_, _, _)
TimestampLoop(card, i, timestamp) ==
    IF i > Len(TimeSelectors) THEN timestamp
    ELSE LET t == QuerySelector(card, TimeSelectors[i])
         IN IF t.present
            THEN LET v == Or(Or(Or(t.eventTime, t.datetime), t.dataTimestamp),
                             Trim(t.textContent))
                 IN IF Truthy(v) THEN v ELSE TimestampLoop(card, i + 1, v)
            ELSE TimestampLoop(card, i + 1, timestamp)

ResolveTimestamp(card) == TimestampLoop(card, 1, null)

EndsWith(s, suffix) ==
    Len(s) >= Len(suffix) /\ SubSeq(s, Len(s) - Len(suffix) + 1, Len(s)) = suffix

\* src.match(/\/([^\/]+)\.svg$/): group 1, or null when there is no match
SvgMatch(src) ==
    IF ~EndsWith(src, ".svg") THEN null
    ELSE LET stem == SubSeq(src, 1, Len(src) - 4)
             slashes == {i \in 1..Len(stem) : Char(stem, i) = "/"}
         IN IF slashes = {} THEN null
            ELSE LET last == CHOOSE i \in slashes : \A j \in slashes : j <= i
                 IN IF last = Len(stem) THEN null ELSE SubSeq(stem, last + 1, Len(stem))

\* s.replace(/-/g, "")
RECURSIVE StripHyphens(_)
StripHyphens(s) ==
    IF s = "" THEN ""
    ELSE (IF Char(s, 1) = "-" THEN "" ELSE Char(s, 1)) \o StripHyphens(SubSeq(s, 2, Len(s)))

\* codes.join("") over the images whose src matched and left a non-empty code
RECURSIVE JoinCodes(_, _)
JoinCodes(imgs, i) ==
    IF i > Len(imgs) THEN ""
    ELSE LET match == SvgMatch(imgs[i])
             code == IF match = null THEN null ELSE StripHyphens(match)
         IN (IF Truthy(code) THEN code ELSE "") \o JoinCodes(imgs, i + 1)

\* cardSymbol: null unless some image gave a code
CardSymbol(card) ==
    LET joined == JoinCodes(card.imgs, 1)
    IN IF joined = "" THEN null ELSE joined

\* a mutant of ExtractCard: an unresolved provider is pushed as it is
ExtractCardNoSentinel(card, symbol, today) ==
    LET headline == ResolveHeadline(card)
        provider == ResolveProvider(card)
        link == ResolveLink(card)
        timestamp == ResolveTimestamp(card)
        pushed ==
            /\ Truthy(headline)
            /\ ~IsRestrictedHeadline(headline)
            /\ Truthy(link)
            /\ Truthy(timestamp)
            /\ PageIsRecentArticle(timestamp, 3, today)
    IN [pushed |-> pushed,
        article |-> [headline |-> headline,
                     provider |-> provider,
                     timestamp |-> timestamp,
                     link |-> link,
                     symbol |-> Or(CardSymbol(card), symbol)]]

\* the body of the forEach callback: what (if anything) it pushes for one card
ExtractCard(card, symbol, today) ==
    LET headline == ResolveHeadline(card)
        provider == ResolveProvider(card)
        link == ResolveLink(card)
        timestamp == ResolveTimestamp(card)
        pushed ==
            /\ Truthy(headline)
            /\ ~IsRestrictedHeadline(headline)
            /\ Truthy(link)
            /\ Truthy(timestamp)
            /\ PageIsRecentArticle(timestamp, 3, today)
    IN [pushed |-> pushed,
        article |-> [headline |-> headline,
                     provider |-> Or(provider, "Unknown"),
                     timestamp |-> timestamp,
                     link |-> link,
                     symbol |-> Or(CardSymbol(card), symbol)]]

\* ExtractCard tabulated once over the cards, symbols and clock values of the model
ExtractCardTable ==
    [card \in CardPool, symbol \in SheetSymbols, today \in Clocks |->
        ExtractCard(card, symbol, today)]

\* `articles` after the forEach over cards[i..]
RECURSIVE ExtractArticles(_, _, _, _)
ExtractArticles(cards, i, symbol, today) ==
    IF i > Len(cards) THEN <<>>
    ELSE LET r == IF <<cards[i], symbol, today>> \in DOMAIN ExtractCardTable
                  THEN ExtractCardTable[cards[i], symbol, today]
                  ELSE ExtractCard(cards[i], symbol, today)
         IN (IF r.pushed THEN <<r.article>> ELSE <<>>)
                \o ExtractArticles(cards, i + 1, symbol, today)

\* `${v}` in a template literal
TemplateString(v) == IF v = null THEN "undefined" ELSE v

ArticleKey(article) ==
    TemplateString(article.headline) \o "-" \o TemplateString(article.timestamp)
        \o "-" \o TemplateString(article.symbol)

\* a mutant of the deduplication loop: it remembers only the previous key
RECURSIVE DedupeLoopPrevOnly(_, _, _, _)
DedupeLoopPrevOnly(articles, i, seenKeys, uniqueArticles) ==
    IF i > Len(articles) THEN uniqueArticles
    ELSE LET key == ArticleKey(articles[i])
         IN IF key \notin seenKeys
            THEN DedupeLoopPrevOnly(articles, i + 1, {key},
                                    Append(uniqueArticles, articles[i]))
            ELSE DedupeLoopPrevOnly(articles, i + 1, {key}, uniqueArticles)

\* the articles of `list` whose key is not `key`
RECURSIVE WithoutKey(_, _)
WithoutKey(list, key) ==
    IF list = <<>> THEN <<>>
    ELSE (IF ArticleKey(Head(list)) = key THEN <<>> ELSE <<Head(list)>>)
            \o WithoutKey(Tail(list), key)

\* a mutant of the deduplication loop: a repeated key replaces the article kept before
RECURSIVE DedupeLoopKeepLast(_, _, _, _)
DedupeLoopKeepLast(articles, i, seenKeys, uniqueArticles) ==
    IF i > Len(articles) THEN uniqueArticles
    ELSE LET key == ArticleKey(articles[i])
         IN DedupeLoopKeepLast(articles, i + 1, seenKeys \cup {key},
                               Append(WithoutKey(uniqueArticles, key), articles[i]))

\* the deduplication loop from article i on, with seenKeys and uniqueArticles so far
RECURSIVE DedupeLoop(_, _, _, _)
DedupeLoop(articles, i, seenKeys, uniqueArticles) ==
    IF i > Len(articles) THEN uniqueArticles
    ELSE LET key == ArticleKey(articles[i])
         IN IF key \notin seenKeys
            THEN DedupeLoop(articles, i + 1, seenKeys \cup {key},
                            Append(uniqueArticles, articles[i]))
            ELSE DedupeLoop(articles, i + 1, seenKeys, uniqueArticles)

Dedupe(articles) == DedupeLoop(articles, 1, {}, <<>>)

\* trySelectors(page, SELECTOR_REGISTRY, symbol) on a document holding `cards`
TrySelectors(cards, symbol, today) == Dedupe(ExtractArticles(cards, 1, symbol, today))

-----------------------------------------------------------------------------
(* The document of an article page, as extractArticleContent queries it *)

ContentSelectors ==
    << ".body-KX2tCBZq", "div[class*=body-]", "div[class*=content-]",
       "article[data-role=article] div[class*=content]",
       "div[class*=article-body]", "[itemprop=articleBody]" >>

FallbackContainers ==
    << "article", "main", "[role=main]", ".article-content", ".content", ".post-content" >>

KnownFreeProviders == {"moneycontrol", "reuters", "business standard", "investing.com"}

LoginIndicators ==
    { "sign in to read", "login to continue", "subscribe to read", "premium content",
      "members only", "requires subscription", "sign up to continue reading",
      "paywall", "membership required" }

LoginSelectors ==
    { "[class*=paywall]", "[class*=subscription]", "[class*=premium]", "[id*=login]",
      "[class*=sign-in]", "button[class*=subscribe]", "[class*=member-only]",
      "[data-login-required]" }

RestrictedPhrases ==
    { "sign in to read exclusive news", "login or create a forever free account",
      "subscribe to read this article", "this article is reserved for our members",
      "premium content", "requires subscription" }

\* An article document: the innerText of the elements matching [class*="provider"]
\* in document order, the innerText of the visible div/section/article/header
\* elements, the login selectors that match some element, the page evaluation
\* of checkIfArticleRequiresLogin that throws ("none" when none does), the
\* innerText of the first element each content selector and each fallback
\* container matches, and whether the fallback evaluation throws.
ArticleDoc(providerEls, visibleTexts, loginEls, gateThrows, contentEls, containerEls, fallbackThrows) ==
    [providerEls |-> providerEls, visibleTexts |-> visibleTexts, loginEls |-> loginEls,
     gateThrows |-> gateThrows, contentEls |-> contentEls, containerEls |-> containerEls,
     fallbackThrows |-> fallbackThrows]

Dots == "........................................"

\* s followed by dots up to n characters (n within Len(s) + 120)
PadTo(s, n) == IF Len(s) >= n THEN s ELSE SubSeq(s \o Dots \o Dots \o Dots, 1, n)

NoEls == [s \in {} |-> ""]

Clean40 == PadTo("Shares rose after the rate cut", 40)
Clean50 == PadTo("Shares rose after the rate cut", 50)
Clean51 == PadTo("Shares rose after the Rate Cut", 51)
Clean80 == PadTo("Shares rose after the rate cut, analysts said", 80)
Clean120 == PadTo("Shares rose after the rate cut, analysts said", 120)
Restricted60 == PadTo("This is Premium Content for subscribers", 60)
Restricted120 == PadTo("Subscribe to read this article in full", 120)

ArticleDocPool ==
    { \* an open article: the first content selector holds the body
      ArticleDoc(<<>>, <<Clean51>>, {}, "none",
                 (".body-KX2tCBZq" :> ("  " \o Clean51 \o " ")), NoEls, FALSE),
      \* a visible container shows a login phrase
      ArticleDoc(<<"Dow Jones">>, <<"Sign In to read this story", Clean51>>, {}, "none",
                 (".body-KX2tCBZq" :> Clean51), NoEls, FALSE),
      \* a paywall element is present
      ArticleDoc(<<>>, <<Clean51>>, {"[class*=paywall]"}, "none",
                 (".body-KX2tCBZq" :> Clean51), ("main" :> Clean120), FALSE),
      \* an allow-listed provider beside a paywall element; the first selector is short
      ArticleDoc(<<" Reuters ">>, <<Clean51>>, {"[class*=paywall]"}, "none",
                 (".body-KX2tCBZq" :> Clean40) @@ ("div[class*=content-]" :> Clean51),
                 NoEls, FALSE),
      \* the text scan throws; the first long text is restricted, a later one is clean
      ArticleDoc(<<>>, <<>>, {"[id*=login]"}, "text",
                 ("div[class*=body-]" :> Restricted60) @@ ("[itemprop=articleBody]" :> Clean51),
                 ("main" :> Clean120), FALSE),
      \* no content selector matches anything long enough; <main> holds the body
      ArticleDoc(<<>>, <<Clean120>>, {}, "none",
                 ("div[class*=article-body]" :> Clean50),
                 ("article" :> Clean80) @@ ("main" :> Clean120), FALSE),
      \* only a restricted text in a generic container
      ArticleDoc(<<>>, <<>>, {}, "none", NoEls, (".content" :> Restricted120), FALSE),
      \* the fallback evaluation throws
      ArticleDoc(<<>>, <<>>, {}, "none", NoEls, ("main" :> Clean120), TRUE),
      \* nothing readable
      ArticleDoc(<<>>, <<>>, {}, "none", NoEls, NoEls, FALSE) }

-----------------------------------------------------------------------------
(* checkIfArticleRequiresLogin and extractArticleContent *)

\* providerEl?.innerText?.toLowerCase().trim() || ""
ProviderText(doc) ==
    IF doc.providerEls = <<>> THEN ""
    ELSE Or(Trim(ToLowerCase(doc.providerEls[1])), "")

IsKnownFreeProvider(doc) ==
    \E p \in KnownFreeProviders : Includes(ProviderText(doc), p)

HasLoginIndicators(doc) ==
    \E k \in 1..Len(doc.visibleTexts) :
        \E text \in LoginIndicators : Includes(ToLowerCase(doc.visibleTexts[k]), text)

HasLoginElements(doc) == \E sel \in LoginSelectors : sel \in doc.loginEls

\* a mutant of checkIfArticleRequiresLogin: an exception counts as login required
CheckIfArticleRequiresLoginFailsClosed(doc) ==
    IF doc.gateThrows = "provider" THEN TRUE
    ELSE IF IsKnownFreeProvider(doc) THEN FALSE
    ELSE IF doc.gateThrows \in {"text", "structural"} THEN TRUE
    ELSE HasLoginIndicators(doc) \/ HasLoginElements(doc)

\* checkIfArticleRequiresLogin(page): an exception of any evaluation is caught
CheckIfArticleRequiresLogin(doc) ==
    IF doc.gateThrows = "provider" THEN FALSE
    ELSE IF IsKnownFreeProvider(doc) THEN FALSE
    ELSE IF doc.gateThrows \in {"text", "structural"} THEN FALSE
    ELSE HasLoginIndicators(doc) \/ HasLoginElements(doc)

IsRestrictedContent(text) ==
    \E phrase \in RestrictedPhrases : Includes(ToLowerCase(text), phrase)

\* the loop over contentSelectors from selector i on: decided when it returned
RECURSIVE ContentLoop(_, _)
ContentLoop(doc, i) ==
    IF i > Len(ContentSelectors) THEN [decided |-> FALSE, value |-> null]
    ELSE IF ContentSelectors[i] \notin DOMAIN doc.contentEls
         THEN ContentLoop(doc, i + 1)       \* waitForSelector times out
         ELSE LET text == Trim(doc.contentEls[ContentSelectors[i]])
              IN IF Truthy(text) /\ Len(text) > 50
                 THEN [decided |-> TRUE,
                       value |-> IF IsRestrictedContent(text) THEN null ELSE text]
                 ELSE ContentLoop(doc, i + 1)

\* a mutant of the fallback evaluation: the threshold of the content selectors
RECURSIVE FallbackLoopShort(_, _)
FallbackLoopShort(doc, i) ==
    IF i > Len(FallbackContainers) THEN null
    ELSE IF FallbackContainers[i] \notin DOMAIN doc.containerEls
         THEN FallbackLoopShort(doc, i + 1)
         ELSE LET text == Trim(doc.containerEls[FallbackContainers[i]])
              IN IF Truthy(text) /\ Len(text) > 50 THEN text
                 ELSE FallbackLoopShort(doc, i + 1)

\* the fallback evaluation: the first container text longer than 100, or null
RECURSIVE FallbackLoop(_, _)
FallbackLoop(doc, i) ==
    IF i > Len(FallbackContainers) THEN null
    ELSE IF FallbackContainers[i] \notin DOMAIN doc.containerEls
         THEN FallbackLoop(doc, i + 1)
         ELSE LET text == Trim(doc.containerEls[FallbackContainers[i]])
              IN IF Truthy(text) /\ Len(text) > 100 THEN text
                 ELSE FallbackLoop(doc, i + 1)

FallbackContent(doc) ==
    IF doc.fallbackThrows THEN null
    ELSE LET text == FallbackLoop(doc, 1)
         IN IF Truthy(text) /\ ~IsRestrictedContent(text) THEN text ELSE null

\* extractArticleContent(page)
ExtractArticleContent(doc) ==
    IF CheckIfArticleRequiresLogin(doc) THEN null
    ELSE LET specific == ContentLoop(doc, 1)
         IN IF specific.decided THEN specific.value ELSE FallbackContent(doc)

\* the access gate and extractArticleContent tabulated once over the documents of the model
ArticleDocTable ==
    [doc \in ArticleDocPool |->
        [requiresLogin |-> CheckIfArticleRequiresLogin(doc),
         content |-> ExtractArticleContent(doc)]]

-----------------------------------------------------------------------------
(* storeInWordPress *)

DefaultWpApiUrl == "https://profitbooking.in/wp-json/scraper/v1/tradingview"

\* process.env.WP_API_URL || default
ConfigWpApiUrl(env) == Or(env, DefaultWpApiUrl)

\* WP_API_URL unset, or set from an empty secret
EnvWpApiUrls == {null, ""}

TwoDigitString(n) == Char(Digits, (n \div 10) + 1) \o Char(Digits, (n % 10) + 1)

\* new Date(timestamp).toISOString().split("T")[0]
IsoDay(timestamp) ==
    "2024-01-" \o TwoDigitString((DateParse(timestamp).ms \div MsPerDay) + 1)

NoRequest == [sent |-> FALSE, Headline |-> null, Fullarticle |-> null, Provider |-> null,
              Symbol |-> null, date |-> null]

PostOutcomes == {"ok", "timeout", "error"}

\* a mutant of storeInWordPress: the recency check is left out
StoreInWordPressUnchecked(apiUrl, data, today, outcome) ==
    IF ~Truthy(apiUrl) THEN [returned |-> TRUE, request |-> NoRequest]
    ELSE IF ~DateParse(data.timestamp).valid
    THEN [returned |-> FALSE, request |-> NoRequest]
    ELSE [returned |-> (outcome = "ok"),
          request |-> [sent |-> TRUE, Headline |-> data.headline,
                       Fullarticle |-> data.content,
                       Provider |-> Or(data.provider, "General"),
                       Symbol |-> data.symbol, date |-> IsoDay(data.timestamp)]]

\* a mutant of storeInWordPress: a failed request is reported as stored
StoreInWordPressIgnoresFailure(apiUrl, data, today, outcome) ==
    IF ~Truthy(apiUrl) THEN [returned |-> TRUE, request |-> NoRequest]
    ELSE IF ~IsRecentArticle(data.timestamp, 1, today)
    THEN [returned |-> FALSE, request |-> NoRequest]
    ELSE [returned |-> TRUE,
          request |-> [sent |-> TRUE, Headline |-> data.headline,
                       Fullarticle |-> data.content,
                       Provider |-> Or(data.provider, "General"),
                       Symbol |-> data.symbol, date |-> IsoDay(data.timestamp)]]

\* storeInWordPress(data) when axios.post ends with `outcome`: the value returned
\* and the request sent, if any
StoreInWordPress(apiUrl, data, today, outcome) ==
    IF ~Truthy(apiUrl) THEN [returned |-> TRUE, request |-> NoRequest]
    ELSE IF ~IsRecentArticle(data.timestamp, 1, today)
    THEN [returned |-> FALSE, request |-> NoRequest]
    ELSE [returned |-> (outcome = "ok"),
          request |-> [sent |-> TRUE, Headline |-> data.headline,
                       Fullarticle |-> data.content,
                       Provider |-> Or(data.provider, "General"),
                       Symbol |-> data.symbol, date |-> IsoDay(data.timestamp)]]

-----------------------------------------------------------------------------
(* getStockUrlsFromSheet *)

\* Array.prototype.indexOf, 0-based, -1 when absent
IndexOf(array, value) ==
    IF \E k \in 1..Len(array) : array[k] = value
    THEN (CHOOSE k \in 1..Len(array) :
            array[k] = value /\ \A j \in 1..(k - 1) : array[j] /= value) - 1
    ELSE -1

Min3(a, b, c) == CHOOSE m \in {a, b, c} : \A x \in {a, b, c} : m <= x
Max3(a, b, c) == CHOOSE m \in {a, b, c} : \A x \in {a, b, c} : m >= x

\* row[k] for a 0-based k: undefined beyond the cells the API returned
Cell(row, k) == IF k + 1 \in 1..Len(row) THEN row[k + 1] ELSE null

\* values.get over the columns startCol..endCol (0-based) of the grid
RangeValues(grid, startCol, endCol) ==
    [r \in 1..Len(grid) |->
        IF Len(grid[r]) <= startCol THEN <<>>
        ELSE SubSeq(grid[r], startCol + 1,
                    IF Len(grid[r]) < endCol + 1 THEN Len(grid[r]) ELSE endCol + 1)]

\* rows.slice(1).map(...).filter((entry) => entry.link), from row i on
RECURSIVE StockData(_, _, _, _, _)
StockData(rows, i, symbolCol, stockNameCol, scrapLinkCol) ==
    IF i > Len(rows) THEN <<>>
    ELSE LET entry == [Symbol |-> Cell(rows[i], symbolCol),
                       StockName |-> Cell(rows[i], stockNameCol),
                       link |-> Cell(rows[i], scrapLinkCol)]
         IN (IF Truthy(entry.link) THEN <<entry>> ELSE <<>>)
                \o StockData(rows, i + 1, symbolCol, stockNameCol, scrapLinkCol)

SheetResult(threw, value, error) == [threw |-> threw, value |-> value, error |-> error]

\* a mutant of getStockUrlsFromSheet: a missing Symbol column is not noticed
GetStockUrlsFromSheetNoSymbolCheck(sheet) ==
    IF sheet.authorize /= "ok"
    THEN SheetResult(TRUE, <<>>, "authorize")
    ELSE IF sheet.headerGet /= "ok"
    THEN SheetResult(FALSE, <<>>, "request")
    ELSE LET headers == IF sheet.grid = <<>> THEN <<>> ELSE sheet.grid[1]
             scrapLinkColIndex == IndexOf(headers, "Scrap_Link")
             symbolColIndex == IF IndexOf(headers, "Symbol") = -1
                               THEN scrapLinkColIndex ELSE IndexOf(headers, "Symbol")
             stockNameColIndex == IndexOf(headers, "Stock name")
         IN IF Len(headers) = 0
            THEN SheetResult(FALSE, <<>>, "headers")
            ELSE IF scrapLinkColIndex = -1 \/ stockNameColIndex = -1
            THEN SheetResult(FALSE, <<>>, "columns")
            ELSE IF sheet.dataGet /= "ok"
            THEN SheetResult(FALSE, <<>>, "request")
            ELSE LET startCol == Min3(symbolColIndex, stockNameColIndex, scrapLinkColIndex)
                     endCol == Max3(symbolColIndex, stockNameColIndex, scrapLinkColIndex)
                     rows == RangeValues(sheet.grid, startCol, endCol)
                 IN SheetResult(FALSE,
                                StockData(rows, 2, symbolColIndex - startCol,
                                          stockNameColIndex - startCol,
                                          scrapLinkColIndex - startCol),
                                "none")

\* getStockUrlsFromSheet(): whether it threw, the list it returned, and the error
\* it met ("none", "authorize", "request", "headers" or "columns")
GetStockUrlsFromSheet(sheet) ==
    IF sheet.authorize /= "ok"
    THEN SheetResult(TRUE, <<>>, "authorize")       \* outside the try: propagates
    ELSE IF sheet.headerGet /= "ok"
    THEN SheetResult(FALSE, <<>>, "request")
    ELSE LET headers == IF sheet.grid = <<>> THEN <<>> ELSE sheet.grid[1]
             scrapLinkColIndex == IndexOf(headers, "Scrap_Link")
             symbolColIndex == IndexOf(headers, "Symbol")
             stockNameColIndex == IndexOf(headers, "Stock name")
         IN IF Len(headers) = 0
            THEN SheetResult(FALSE, <<>>, "headers")
            ELSE IF scrapLinkColIndex = -1 \/ symbolColIndex = -1 \/ stockNameColIndex = -1
            THEN SheetResult(FALSE, <<>>, "columns")
            ELSE IF sheet.dataGet /= "ok"
            THEN SheetResult(FALSE, <<>>, "request")
            ELSE LET startCol == Min3(symbolColIndex, stockNameColIndex, scrapLinkColIndex)
                     endCol == Max3(symbolColIndex, stockNameColIndex, scrapLinkColIndex)
                     rows == RangeValues(sheet.grid, startCol, endCol)
                 IN SheetResult(FALSE,
                                StockData(rows, 2, symbolColIndex - startCol,
                                          stockNameColIndex - startCol,
                                          scrapLinkColIndex - startCol),
                                "none")

\* the header rows a sheet of the model may have
HeaderPool ==
    { <<"Symbol", "Stock name", "Scrap_Link">>,
      <<"Stock name", "Notes", "Scrap_Link", "Symbol">>,
      <<"Stock name", "Scrap_Link">>,
      <<"Symbol", "Notes", "Scrap_Link">>,
      <<"Symbol", "Stock name", "Link">>,
      <<>> }

\* the data rows, by column name
StockRowPool ==
    { [Symbol |-> "NIFTY", StockName |-> "Nifty 50",
       link |-> "https://in.tradingview.com/symbols/NSE-NIFTY/news/"],
      [Symbol |-> "BAJAJ-AUTO", StockName |-> "Bajaj Auto",
       link |-> "https://in.tradingview.com/symbols/NSE-BAJAJ_AUTO/news/"],
      [Symbol |-> "TCS", StockName |-> "Tata Consultancy", link |-> ""] }

\* the cell a data row shows under a header
CellUnder(header, row) ==
    IF header = "Symbol" THEN row.Symbol
    ELSE IF header = "Stock name" THEN row.StockName
    ELSE IF header \in {"Scrap_Link", "Link"} THEN row.link
    ELSE "n/a"

\* the grid of a sheet: the header row, then one row of cells per data row
Grid(headers, rows) ==
    IF headers = <<>> THEN <<>>
    ELSE <<headers>> \o [r \in 1..Len(rows) |->
                            [c \in 1..Len(headers) |-> CellUnder(headers[c], rows[r])]]

RowLists(n) ==
    UNION { { rows \in [1..k -> StockRowPool] :
                \A i, j \in 1..k : rows[i] = rows[j] => i = j } : k \in 0..n }

\* the sheets the run may meet, with the outcome of each request to the API
Sheets ==
    { [authorize |-> a, headerGet |-> h, dataGet |-> d, grid |-> Grid(headers, rows)] :
        a \in {"ok", "denied"}, h \in {"ok", "403"}, d \in {"ok", "403"},
        headers \in HeaderPool, rows \in RowLists(MaxTargets) }

-----------------------------------------------------------------------------
(* The clock *)

BoolStr(b) == IF b THEN "true" ELSE "false"

RecentIdle ==
    /\ irTimestamp = null
    /\ irDaysBack = 0
    /\ irToday = now
    /\ irResult = "none"

SelectorsIdle ==
    /\ tsCards = <<>>
    /\ tsSymbol = ""
    /\ tsArticles = <<>>
    /\ tsResult = <<>>
    /\ tsCalled = FALSE

ContentIdle ==
    /\ ecDoc = ArticleDoc(<<>>, <<>>, {}, "none", NoEls, NoEls, FALSE)
    /\ ecPc = "idle"
    /\ ecSel = 1
    /\ ecTrace = <<>>
    /\ ecGate = "none"
    /\ ecResult = null

\* time passes
ClockTick ==
    /\ now + HalfDay \in Clocks
    /\ now' = now + HalfDay
    /\ UNCHANGED <<recentVars, selectorVars, contentVars, runVars>>

-----------------------------------------------------------------------------
(* scrapeTradingViewNews *)

\* what is recorded about the article being processed
ArtIdle ==
    [extracted |-> "none",      \* "null" or "body" once extractArticleContent returned
     requiresLogin |-> FALSE,   \* what checkIfArticleRequiresLogin answered
     storeCalls |-> 0,          \* calls of storeInWordPress
     storeAt |-> 0,             \* the clock at the call of storeInWordPress
     postOutcome |-> "none",    \* how the POST ended, if one was sent
     request |-> NoRequest,     \* the POST sent
     storedBefore |-> 0,        \* articlesStoredForThisStock when the article began
     skippedBefore |-> 0]       \* skippedDueToLogin when the article began

RunIdle ==
    /\ pc = "idle"
    /\ wpApiUrl = DefaultWpApiUrl
    /\ browserOpen = FALSE
    /\ sheetRead = [authorize |-> "none", headerGet |-> "none", headers |-> <<>>]
    /\ sheetError = "none"
    /\ stockUrls = <<>>
    /\ stockIdx = 1
    /\ articlesOnPage = <<>>
    /\ articleIdx = 1
    /\ articlePageOpen = 0
    /\ articlesStoredForThisStock = 0
    /\ skippedDueToLogin = 0
    /\ content = null
    /\ stored = FALSE
    /\ art = ArtIdle
    /\ effects = {}
    /\ navFailed = {}
    /\ failedSteps = {}

\* the browser is launched and the listing page created (lines 539-565)
Init ==
    /\ now \in Clocks
    /\ RecentIdle
    /\ SelectorsIdle
    /\ ContentIdle
    /\ pc = "sheet"
    /\ wpApiUrl \in {ConfigWpApiUrl(env) : env \in EnvWpApiUrls}
    /\ browserOpen = TRUE
    /\ sheetRead = [authorize |-> "none", headerGet |-> "none", headers |-> <<>>]
    /\ sheetError = "none"
    /\ stockUrls = <<>>
    /\ stockIdx = 1
    /\ articlesOnPage = <<>>
    /\ articleIdx = 1
    /\ articlePageOpen = 0
    /\ articlesStoredForThisStock = 0
    /\ skippedDueToLogin = 0
    /\ content = null
    /\ stored = FALSE
    /\ art = ArtIdle
    /\ effects = {}
    /\ navFailed = {}
    /\ failedSteps = {}

\* failedSteps after `step` is taken on the stock at stockIdx
StepOn(step) ==
    IF stockIdx \in navFailed THEN failedSteps \cup {<<step, stockIdx>>} ELSE failedSteps

\* where the for-of over stockUrls goes with stockEntry number i
StockLoopPc(i) == IF i > Len(stockUrls) THEN "closing" ELSE "goto"

\* the first article from i on that has a link (the others are skipped with a log line)
RECURSIVE FirstWithLink(_, _)
FirstWithLink(articles, i) ==
    IF i > Len(articles) THEN i
    ELSE IF Truthy(articles[i].link) THEN i
    ELSE FirstWithLink(articles, i + 1)

\* where the for-of over articles goes from article number i
ArticleLoopPc(articles, i) ==
    IF FirstWithLink(articles, i) > Len(articles) THEN "stockDelay" ELSE "newPage"

\* lines 569-582: the sheet is read; an empty list or an exception ends the run
GetStockUrls ==
    /\ pc = "sheet"
    /\ \E s \in Sheets :
        LET r == GetStockUrlsFromSheet(s)
        IN /\ sheetRead' = [authorize |-> s.authorize, headerGet |-> s.headerGet,
                        headers |-> IF s.grid = <<>> THEN <<>> ELSE s.grid[1]]
           /\ sheetError' = r.error
           /\ stockUrls' = r.value
           /\ IF r.threw \/ Len(r.value) = 0
              THEN pc' = "done" /\ browserOpen' = FALSE     \* browser.close(); return
              ELSE pc' = "goto" /\ browserOpen' = TRUE
    /\ stockIdx' = 1
    /\ UNCHANGED <<now, recentVars, selectorVars, contentVars, wpApiUrl, targetVars, articleVars, observed>>

\* a mutant of GotoListing: a failed navigation does not `continue`
GotoListingFallsThrough ==
    /\ pc = "goto"
    /\ \E ok \in BOOLEAN :
        /\ effects' = effects \cup {"goto"}
        /\ navFailed' = IF ok THEN navFailed ELSE navFailed \cup {stockIdx}
        /\ failedSteps' = StepOn("goto")
        /\ pc' = "scroll"
        /\ stockIdx' = stockIdx
    /\ UNCHANGED <<now, recentVars, selectorVars, contentVars, wpApiUrl, browserOpen, sheetRead, sheetError,
                   stockUrls, targetVars, articleVars>>

\* lines 593-607: page.goto(stockLink) and the settle delay
GotoListing ==
    /\ pc = "goto"
    /\ \E ok \in BOOLEAN :
        /\ effects' = effects \cup {"goto"}
        /\ navFailed' = IF ok THEN navFailed ELSE navFailed \cup {stockIdx}
        /\ failedSteps' = StepOn("goto")
        /\ IF ok
           THEN pc' = "scroll" /\ stockIdx' = stockIdx
           ELSE pc' = StockLoopPc(stockIdx + 1) /\ stockIdx' = stockIdx + 1    \* continue
    /\ UNCHANGED <<now, recentVars, selectorVars, contentVars, wpApiUrl, browserOpen, sheetRead, sheetError,
                   stockUrls, targetVars, articleVars>>

\* lines 609-610: autoScroll(page), outside any try
AutoScroll ==
    /\ pc = "scroll"
    /\ failedSteps' = StepOn("scroll")
    /\ \E ok \in BOOLEAN : pc' = IF ok THEN "extract" ELSE "crashed"
    /\ UNCHANGED <<now, recentVars, selectorVars, contentVars, wpApiUrl, browserOpen, sheetRead, sheetError,
                   stockUrls, stockIdx, targetVars, articleVars, effects, navFailed>>

\* lines 612-631: trySelectors, outside any try, then the counters and the first article
ExtractListing ==
    /\ pc = "extract"
    /\ failedSteps' = StepOn("extract")
    /\ \/ \E cards \in CardLists(MaxListing) :
            LET articles == TrySelectors(cards, stockUrls[stockIdx].Symbol, now)
            IN /\ articlesOnPage' = articles
               /\ articleIdx' = FirstWithLink(articles, 1)
               /\ pc' = ArticleLoopPc(articles, 1)
       \/ /\ pc' = "crashed"        \* page.evaluate rejects
          /\ UNCHANGED <<articlesOnPage, articleIdx>>
    /\ articlesStoredForThisStock' = 0
    /\ skippedDueToLogin' = 0
    /\ UNCHANGED <<now, recentVars, selectorVars, contentVars, wpApiUrl, browserOpen, sheetRead, sheetError,
                   stockUrls, stockIdx, articleVars, effects, navFailed>>

\* line 633: browser.newPage(), outside the try
NewPage ==
    /\ pc = "newPage"
    /\ \/ /\ articlePageOpen' = articlePageOpen + 1
          /\ effects' = effects \cup {"newPage"}
          /\ failedSteps' = StepOn("newPage")
          /\ art' = [ArtIdle EXCEPT !.storedBefore = articlesStoredForThisStock,
                                    !.skippedBefore = skippedDueToLogin]
          /\ pc' = "articleGoto"
       \/ /\ pc' = "crashed"
          /\ UNCHANGED <<articlePageOpen, effects, failedSteps, art>>
    /\ UNCHANGED <<now, recentVars, selectorVars, contentVars, wpApiUrl, browserOpen, sheetRead, sheetError,
                   stockUrls, stockIdx, targetVars, content, stored, navFailed>>

\* lines 640-661: the article page is set up and navigated, inside the try
ArticleGoto ==
    /\ pc = "articleGoto"
    /\ \/ /\ pc' = "extractContent"
          /\ UNCHANGED articlePageOpen
       \/ /\ pc' = "finally"            \* catch: the error is logged
          /\ UNCHANGED articlePageOpen
       \/ /\ pc' = "finally"            \* the page was closed under the navigation
          /\ articlePageOpen' = articlePageOpen - 1
    /\ UNCHANGED <<now, recentVars, selectorVars, contentVars, wpApiUrl, browserOpen, sheetRead, sheetError,
                   stockUrls, stockIdx, targetVars, content, stored, art, observed>>

\* a mutant of ExtractContent: a null body is not skipped
ExtractContentNoSkip ==
    /\ pc = "extractContent"
    /\ \E doc \in ArticleDocPool :
        LET r == ArticleDocTable[doc]
        IN /\ content' = r.content
           /\ art' = [art EXCEPT !.extracted = IF r.content = null THEN "null" ELSE "body",
                                 !.requiresLogin = r.requiresLogin]
           /\ pc' = "store"
           /\ skippedDueToLogin' = skippedDueToLogin
    /\ UNCHANGED <<now, recentVars, selectorVars, contentVars, wpApiUrl, browserOpen, sheetRead, sheetError,
                   stockUrls, stockIdx, articlesOnPage, articleIdx,
                   articlesStoredForThisStock, articlePageOpen, stored, observed>>

\* lines 664-673: extractArticleContent and the skip of an article without content
ExtractContent ==
    /\ pc = "extractContent"
    /\ \E doc \in ArticleDocPool :
        LET r == ArticleDocTable[doc]
        IN /\ content' = r.content
           /\ art' = [art EXCEPT !.extracted = IF r.content = null THEN "null" ELSE "body",
                                 !.requiresLogin = r.requiresLogin]
           /\ IF ~Truthy(r.content)
              THEN pc' = "finallyContinue" /\ skippedDueToLogin' = skippedDueToLogin + 1
              ELSE pc' = "store" /\ skippedDueToLogin' = skippedDueToLogin
    /\ UNCHANGED <<now, recentVars, selectorVars, contentVars, wpApiUrl, browserOpen, sheetRead, sheetError,
                   stockUrls, stockIdx, articlesOnPage, articleIdx,
                   articlesStoredForThisStock, articlePageOpen, stored, observed>>

\* wpData of lines 675-681
WpData ==
    LET article == articlesOnPage[articleIdx]
    IN [headline |-> article.headline,
        content |-> content,
        symbol |-> Or(article.symbol, stockUrls[stockIdx].Symbol),
        provider |-> article.provider,
        timestamp |-> article.timestamp]

\* lines 688-696: storeInWordPress(wpData) and the stored counter
Store ==
    /\ pc = "store"
    /\ \E outcome \in PostOutcomes :
        LET r == StoreInWordPress(wpApiUrl, WpData, now, outcome)
        IN /\ stored' = r.returned
           /\ articlesStoredForThisStock' =
                IF r.returned THEN articlesStoredForThisStock + 1
                ELSE articlesStoredForThisStock
           /\ art' = [art EXCEPT !.storeCalls = @ + 1,
                                 !.storeAt = now,
                                 !.postOutcome = IF r.request.sent THEN outcome ELSE "none",
                                 !.request = r.request]
           /\ effects' = IF r.request.sent THEN effects \cup {"post"} ELSE effects
           /\ failedSteps' = IF r.request.sent THEN StepOn("post") ELSE failedSteps
    /\ pc' = "finally"
    /\ UNCHANGED <<now, recentVars, selectorVars, contentVars, wpApiUrl, browserOpen, sheetRead, sheetError,
                   stockUrls, stockIdx, articlesOnPage, articleIdx, skippedDueToLogin,
                   articlePageOpen, content, navFailed>>

\* a mutant of ClosedPages: nothing is closed
ClosedPagesKeptOpen(open) == open

\* the page count after `if (!articlePage.isClosed()) await articlePage.close()`
ClosedPages(open) == IF open > 0 THEN open - 1 ELSE open

\* lines 703-707: finally, the article page is closed unless it is closed already
\* (close() is taken to complete). After the `continue` of line 672 the loop goes
\* to the next article at once, without the delay of line 710.
ClosePage ==
    /\ pc \in {"finally", "finallyContinue"}
    /\ articlePageOpen' = ClosedPages(articlePageOpen)
    /\ IF pc = "finallyContinue"
       THEN /\ articleIdx' = FirstWithLink(articlesOnPage, articleIdx + 1)
            /\ pc' = ArticleLoopPc(articlesOnPage, articleIdx + 1)
            /\ content' = null
            /\ stored' = FALSE
            /\ art' = ArtIdle
       ELSE /\ pc' = "articleDelay"
            /\ UNCHANGED <<articleIdx, content, stored, art>>
    /\ UNCHANGED <<now, recentVars, selectorVars, contentVars, wpApiUrl, browserOpen, sheetRead, sheetError,
                   stockUrls, stockIdx, articlesOnPage, articlesStoredForThisStock,
                   skippedDueToLogin, observed>>

\* line 710 and the loop head: the pacing delay, then the next article with a link
ArticleDelay ==
    /\ pc = "articleDelay"
    /\ articleIdx' = FirstWithLink(articlesOnPage, articleIdx + 1)
    /\ pc' = ArticleLoopPc(articlesOnPage, articleIdx + 1)
    /\ content' = null
    /\ stored' = FALSE
    /\ art' = ArtIdle
    /\ UNCHANGED <<now, recentVars, selectorVars, contentVars, wpApiUrl, browserOpen, sheetRead, sheetError,
                   stockUrls, stockIdx, articlesOnPage, articlesStoredForThisStock,
                   skippedDueToLogin, articlePageOpen, observed>>

\* lines 712-718: the summary line, the pacing delay, then the next stock
StockDelay ==
    /\ pc = "stockDelay"
    /\ stockIdx' = stockIdx + 1
    /\ pc' = StockLoopPc(stockIdx + 1)
    /\ articlesOnPage' = <<>>
    /\ articleIdx' = 1
    /\ articlesStoredForThisStock' = 0
    /\ skippedDueToLogin' = 0
    /\ UNCHANGED <<now, recentVars, selectorVars, contentVars, wpApiUrl, browserOpen, sheetRead, sheetError,
                   stockUrls, articleVars, observed>>

\* line 723: browser.close()
CloseBrowser ==
    /\ pc = "closing"
    /\ browserOpen' = FALSE
    /\ pc' = "done"
    /\ UNCHANGED <<now, recentVars, selectorVars, contentVars, wpApiUrl, sheetRead, sheetError, stockUrls,
                   stockIdx, targetVars, articleVars, observed>>

Next ==
    \/ GetStockUrls
    \/ GotoListing
    \/ AutoScroll
    \/ ExtractListing
    \/ NewPage
    \/ ArticleGoto
    \/ ExtractContent
    \/ Store
    \/ ClosePage
    \/ ArticleDelay
    \/ StockDelay
    \/ CloseBrowser
    \/ ClockTick

Spec == Init /\ [][Next]_vars

-----------------------------------------------------------------------------
(* The recency check on its own: any caller, any timestamp, any window *)

InitRecent ==
    /\ now \in Clocks
    /\ RecentIdle
    /\ SelectorsIdle
    /\ ContentIdle
    /\ RunIdle

CallIsRecentArticle ==
    \E timestamp \in TimestampPool, daysBack \in 0..MaxWindow :
        /\ irTimestamp' = timestamp
        /\ irDaysBack' = daysBack
        /\ irToday' = now
        /\ irResult' = BoolStr(IsRecentArticle(timestamp, daysBack, now))
        /\ UNCHANGED <<now, selectorVars, contentVars, runVars>>

NextRecent == CallIsRecentArticle \/ ClockTick

SpecRecent == InitRecent /\ [][NextRecent]_vars

-----------------------------------------------------------------------------
(* One listing-page extraction on its own: any document, any symbol *)

\* the document and the symbol of the call are drawn here; the call is the action
InitSelectors ==
    /\ now \in Clocks
    /\ RecentIdle
    /\ tsCards \in CardLists(MaxCards)
    /\ tsSymbol \in SheetSymbols
    /\ tsArticles = <<>>
    /\ tsResult = <<>>
    /\ tsCalled = FALSE
    /\ ContentIdle
    /\ RunIdle

CallTrySelectors ==
    /\ ~tsCalled
    /\ tsArticles' = ExtractArticles(tsCards, 1, tsSymbol, now)
    /\ tsResult' = TrySelectors(tsCards, tsSymbol, now)
    /\ tsCalled' = TRUE
    /\ UNCHANGED <<now, recentVars, tsCards, tsSymbol, contentVars, runVars>>

NextSelectors == CallTrySelectors \/ ClockTick

SpecSelectors == InitSelectors /\ [][NextSelectors]_vars

-----------------------------------------------------------------------------
(* Claims about isRecentArticle and trySelectors *)

IrParsed == DateParse(irTimestamp)

\* C8: isRecentArticle(t, w) answers true exactly when t is present, parses, and
\* its age in whole days, floor((now - t) / 1 day), is at most w -- that is, when
\* now - t < (w + 1) days -- so a timestamp in the future is recent; a missing
\* or unparseable timestamp is answered false, and every call answers.
C8_RecentIffWholeDayAgeWithinWindow ==
    irResult /= "none" =>
        /\ irResult \in {"true", "false"}
        /\ irResult = "true" <=>
                /\ Truthy(irTimestamp)
                /\ IrParsed.valid
                /\ irToday - IrParsed.ms < (irDaysBack + 1) * MsPerDay
        /\ (Truthy(irTimestamp) /\ IrParsed.valid /\ IrParsed.ms > irToday)
                => irResult = "true"
        /\ (~Truthy(irTimestamp) \/ ~IrParsed.valid) => irResult = "false"

\* a timestamp older than w days by a fraction of a day, which the floor lets pass
C8_Witness ==
    /\ irResult = "true"
    /\ Truthy(irTimestamp)
    /\ IrParsed.valid
    /\ irToday - IrParsed.ms > irDaysBack * MsPerDay

DedupTriple(article) == <<article.headline, article.timestamp, article.symbol>>

\* C9: the list one call of trySelectors returns holds no two articles with the
\* same (headline, timestamp, symbol).
C9_NoTwoArticlesShareDedupKey ==
    tsCalled =>
        \A i, j \in 1..Len(tsResult) :
            i /= j => DedupTriple(tsResult[i]) /= DedupTriple(tsResult[j])

\* two cards with one key were extracted and one of them was dropped
C9_Witness ==
    /\ tsCalled
    /\ Len(tsResult) >= 2
    /\ \E i, j \in 1..Len(tsArticles) :
            i < j /\ DedupTriple(tsArticles[i]) = DedupTriple(tsArticles[j])

\* the index in `articles` of the first article with the triple of `article`
FirstIndexOf(articles, article) ==
    CHOOSE i \in 1..Len(articles) :
        /\ DedupTriple(articles[i]) = DedupTriple(article)
        /\ \A j \in 1..(i - 1) : DedupTriple(articles[j]) /= DedupTriple(article)

\* C10: deduplicating the returned list again changes nothing, and the returned
\* articles are the first occurrences of their keys in the extracted list, in
\* the order in which they occur there.
C10_DedupIdempotentAndOrderStable ==
    tsCalled =>
        /\ Dedupe(tsResult) = tsResult
        /\ \A k \in 1..Len(tsResult) :
                /\ \E i \in 1..Len(tsArticles) :
                        DedupTriple(tsArticles[i]) = DedupTriple(tsResult[k])
                /\ tsResult[k] = tsArticles[FirstIndexOf(tsArticles, tsResult[k])]
        /\ \A k, l \in 1..Len(tsResult) :
                k < l => FirstIndexOf(tsArticles, tsResult[k])
                            < FirstIndexOf(tsArticles, tsResult[l])

\* a repeated key lies between two kept articles: the survivors keep their order
C10_Witness ==
    /\ tsCalled
    /\ Len(tsResult) = 2
    /\ Len(tsArticles) = 3
    /\ DedupTriple(tsArticles[1]) = DedupTriple(tsArticles[3])
    /\ tsArticles[1] /= tsArticles[3]
    /\ tsResult = <<tsArticles[1], tsArticles[2]>>

-----------------------------------------------------------------------------
(* Claims about a run of scrapeTradingViewNews *)

\* the article being processed is between browser.newPage() and the loop head
InArticle == pc \in {"articleGoto", "extractContent", "store", "finally",
                     "finallyContinue", "articleDelay"}

\* C1: storeInWordPress is reached and called only for an article whose body
\* extractArticleContent returned non-null; when the body is null the skip
\* counter of the stock goes up by exactly one, no publish is called for the
\* article, and the step after it goes on to the loop head, never to the
\* publish; an article with a body leaves the skip counter alone.
C1_PublishOnlyWithBodyElseSkipCounted ==
    /\ [](/\ (pc = "store" \/ art.storeCalls > 0) =>
                /\ art.extracted = "body"
                /\ content /= null
                /\ Len(content) > 0
          /\ art.extracted = "null" =>
                /\ pc = "finallyContinue"
                /\ content = null
                /\ skippedDueToLogin = art.skippedBefore + 1
                /\ art.storeCalls = 0
                /\ ~art.request.sent
          /\ (InArticle /\ art.extracted /= "null") =>
                skippedDueToLogin = art.skippedBefore)
    /\ [][(pc = "finallyContinue" /\ pc' /= pc) =>
                /\ pc' \in {"newPage", "stockDelay"}
                /\ skippedDueToLogin' = skippedDueToLogin
                /\ effects' = effects]_vars

\* the access gate answered true for the second article of a stock, after the
\* first was skipped too: the counter stands at two and nothing was published
C1_Witness ==
    /\ pc = "finallyContinue"
    /\ art.extracted = "null"
    /\ art.requiresLogin
    /\ art.skippedBefore = 1
    /\ skippedDueToLogin = 2
    /\ art.storeCalls = 0

\* the article handed to storeInWordPress fails the check of lines 111-114,
\* said without isRecentArticle: no timestamp, no date in it, or an age of
\* more than one whole day
NotRecentForStorage(timestamp, today) ==
    \/ timestamp = null
    \/ timestamp = ""
    \/ ~DateParse(timestamp).valid
    \/ (today - DateParse(timestamp).ms) \div MsPerDay > 1

StoreInput(timestamp) ==
    [headline |-> "Fed holds rates", content |-> Clean80, symbol |-> "NIFTY",
     provider |-> "Reuters", timestamp |-> timestamp]

\* storeInWordPress on every timestamp of the pool, at every clock, whatever the
\* endpoint would answer: a refusal sends nothing and returns false
StoreRefusesNotRecent ==
    \A timestamp \in TimestampPool, today \in Clocks, outcome \in PostOutcomes :
        LET r == StoreInWordPress(DefaultWpApiUrl, StoreInput(timestamp), today, outcome)
        IN /\ NotRecentForStorage(timestamp, today) =>
                r = [returned |-> FALSE, request |-> NoRequest]
           /\ r.request.sent => ~NotRecentForStorage(timestamp, today)

\* C2: storeInWordPress sends no POST for an article that fails the storage
\* recency check (no timestamp, an unparseable one, or a whole-day age above 1)
\* and returns false; in a run, every call made for such an article sent
\* nothing, stored nothing and counted nothing, and every POST sent was for an
\* article that passed the check at the time of the call.
C2_NoPostForNotRecentArticle ==
    /\ StoreRefusesNotRecent
    /\ art.storeCalls > 0 =>
        LET timestamp == articlesOnPage[articleIdx].timestamp
        IN /\ NotRecentForStorage(timestamp, art.storeAt) =>
                /\ ~art.request.sent
                /\ art.postOutcome = "none"
                /\ stored = FALSE
                /\ articlesStoredForThisStock = art.storedBefore
           /\ art.request.sent =>
                /\ ~NotRecentForStorage(timestamp, art.storeAt)
                /\ art.request.date = IsoDay(timestamp)

\* an article that passed the three-day check of the listing is two and a half
\* days old when storeInWordPress is called for the second article of the
\* stock, after the first was published: nothing is sent
C2_Witness ==
    /\ pc = "finally"
    /\ art.storeCalls = 1
    /\ art.storedBefore = 1
    /\ NotRecentForStorage(articlesOnPage[articleIdx].timestamp, art.storeAt)
    /\ DateParse(articlesOnPage[articleIdx].timestamp).valid
    /\ ~art.request.sent
    /\ stored = FALSE

\* C3: whatever step fails, every stock after the failing one is still reached:
\* when the run has ended, the loop has got to the last stock of the list.
C3_EveryTargetProcessedDespiteFailure ==
    pc \in {"done", "crashed"} => stockIdx >= Len(stockUrls)

\* C4: when page.goto of a stock's listing fails, nothing else is done for that
\* stock (no scroll, no extraction, no article page, no publish), the loop is at
\* a later stock from then on, and the failing step changes nothing but the
\* loop position; every stock starts from the same state, whether or not the
\* stock before it failed.
C4_FailedListingSkippedOthersUnaffected ==
    /\ [](/\ failedSteps = {}
          /\ \A i \in navFailed : stockIdx > i
          /\ pc = "goto" =>
                /\ browserOpen
                /\ articlesOnPage = <<>>
                /\ articleIdx = 1
                /\ articlesStoredForThisStock = 0
                /\ skippedDueToLogin = 0
                /\ articlePageOpen = 0
                /\ content = null
                /\ stored = FALSE
                /\ art = ArtIdle)
    /\ [][navFailed' /= navFailed =>
                /\ pc = "goto"
                /\ navFailed' = navFailed \cup {stockIdx}
                /\ stockIdx' = stockIdx + 1
                /\ pc' = IF stockIdx < Len(stockUrls) THEN "goto" ELSE "closing"
                /\ UNCHANGED <<now, wpApiUrl, browserOpen, stockUrls, targetVars,
                               articleVars>>]_vars

\* the listing of the first stock failed to load and an article of the second
\* stock has been published
C4_Witness ==
    /\ navFailed = {1}
    /\ stockIdx = 2
    /\ pc = "finally"
    /\ art.request.sent
    /\ art.postOutcome = "ok"
    /\ stored

PostFailed == art.postOutcome \in {"timeout", "error"}

\* C5: when the POST times out or is answered with an error, storeInWordPress
\* returns false, the stored counter stays where it was when the article
\* began, the run goes on through the finally and the delay (it does not
\* crash), and the step after the delay begins the next article of the stock.
C5_FailedPublishNotCountedNextArticleProcessed ==
    /\ [](PostFailed =>
            /\ art.request.sent
            /\ stored = FALSE
            /\ articlesStoredForThisStock = art.storedBefore
            /\ pc \in {"finally", "articleDelay"})
    /\ [][(PostFailed /\ pc' /= pc) =>
            /\ pc = "finally" => pc' = "articleDelay"
            /\ (pc = "articleDelay" /\ articleIdx < Len(articlesOnPage)) =>
                    /\ pc' = "newPage"
                    /\ articleIdx' = articleIdx + 1
            /\ articlesStoredForThisStock' = articlesStoredForThisStock]_vars

\* the POST for the first article of a stock timed out and a second article
\* waits behind the delay
C5_Witness ==
    /\ pc = "articleDelay"
    /\ art.postOutcome = "timeout"
    /\ articleIdx = 1
    /\ Len(articlesOnPage) = 2
    /\ articlesStoredForThisStock = 0

\* C6: at most one article page is open, and only between browser.newPage() and
\* the finally of its article; none is open when the next article's page is
\* about to be opened, nor at the delays, nor when the run has ended.
C6_ArticlePageClosedBeforeNextAndAtEnd ==
    /\ articlePageOpen \in {0, 1}
    /\ articlePageOpen = 1 =>
            pc \in {"articleGoto", "extractContent", "store", "finally", "finallyContinue"}
    /\ pc \in {"newPage", "articleDelay", "stockDelay", "goto", "closing", "done", "crashed"}
            => articlePageOpen = 0

\* the second article of a stock is about to get its page after the first was
\* skipped for a null body, its page closed on the way out
C6_Witness ==
    /\ pc = "newPage"
    /\ articleIdx = 2
    /\ skippedDueToLogin = 1
    /\ articlePageOpen = 0
    /\ "newPage" \in effects

HeaderRowLacksRequiredColumn ==
    /\ sheetRead.authorize = "ok"
    /\ sheetRead.headerGet = "ok"
    /\ \E h \in {"Scrap_Link", "Symbol", "Stock name"} :
            \A c \in 1..Len(sheetRead.headers) : sheetRead.headers[c] /= h

\* C7: when the header row read from the sheet lacks Scrap_Link, Symbol or
\* Stock name, the run is over as soon as the sheet is read: the error is the
\* one of the missing headers or columns, the list of stocks is empty, the
\* browser is closed, and no listing was navigated, no article page opened and
\* no POST sent.
C7_MissingColumnEndsRunBeforeNavigation ==
    HeaderRowLacksRequiredColumn =>
        /\ pc = "done"
        /\ sheetError \in {"headers", "columns"}
        /\ stockUrls = <<>>
        /\ ~browserOpen
        /\ effects = {}
        /\ articlePageOpen = 0
        /\ art = ArtIdle

\* the sheet has the columns Stock name and Scrap_Link but no Symbol
C7_Witness ==
    /\ pc = "done"
    /\ sheetRead.authorize = "ok"
    /\ sheetRead.headerGet = "ok"
    /\ sheetRead.headers = <<"Stock name", "Scrap_Link">>
    /\ sheetError = "columns"

-----------------------------------------------------------------------------
(* One call of extractArticleContent on its own, await by await *)

\* what the access gate may find in a document
GateProviderEls ==
    { <<>>, <<" Reuters ">>, <<"Dow Jones">>, <<"Dow Jones", "Reuters">>,
      <<"MoneyControl News", "Dow Jones">> }

GateVisibleTexts == { <<Clean51>>, <<Clean51, "Members Only: sign up to continue reading">> }

GateLoginEls == { {}, {"[class*=paywall]"}, {"[data-login-required]", "[id*=login]"} }

GateThrows == {"none", "provider", "text", "structural"}

\* what the content selectors and the generic containers may match
BodyContentEls ==
    { NoEls,
      (".body-KX2tCBZq" :> ("  " \o Clean51 \o " ")),
      (".body-KX2tCBZq" :> Clean40) @@ ("div[class*=content-]" :> Clean51)
        @@ ("[itemprop=articleBody]" :> Clean80),
      ("div[class*=body-]" :> Restricted60) @@ ("[itemprop=articleBody]" :> Clean51),
      ("div[class*=article-body]" :> Clean50) @@ ("[itemprop=articleBody]" :> "   ") }

BodyContainerEls ==
    { NoEls,
      ("article" :> Clean80) @@ ("main" :> Clean120),
      ("main" :> Restricted120) @@ (".content" :> Clean120),
      (".post-content" :> Clean120) }

\* the documents handed to extractArticleContent alone: those of the run, every
\* gate finding over a readable body, and every body behind an open gate
ContentDocs ==
    ArticleDocPool
    \cup { ArticleDoc(p, v, l, g, (".body-KX2tCBZq" :> Clean51), ("main" :> Clean120), FALSE) :
                p \in GateProviderEls, v \in GateVisibleTexts, l \in GateLoginEls,
                g \in GateThrows }
    \cup { ArticleDoc(<<>>, <<Clean51>>, {}, "none", c, k, f) :
                c \in BodyContentEls, k \in BodyContainerEls, f \in BOOLEAN }

\* the page has loaded (line 442) and the gate is about to be asked
InitContent ==
    /\ now \in Clocks
    /\ RecentIdle
    /\ SelectorsIdle
    /\ ecDoc \in ContentDocs
    /\ ecPc = "gate"
    /\ ecSel = 1
    /\ ecTrace = <<>>
    /\ ecGate = "none"
    /\ ecResult = null
    /\ RunIdle

\* a mutant of GateCheck: a positive gate does not return
GateCheckFallsThrough ==
    /\ ecPc = "gate"
    /\ LET requiresLogin == CheckIfArticleRequiresLogin(ecDoc)
       IN /\ ecGate' = BoolStr(requiresLogin)
          /\ ecTrace' = Append(ecTrace, "gate")
          /\ ecPc' = "selector"
          /\ ecResult' = null
    /\ UNCHANGED <<now, recentVars, selectorVars, ecDoc, ecSel, runVars>>

\* lines 444-449: checkIfArticleRequiresLogin, and `return null` when it says true
GateCheck ==
    /\ ecPc = "gate"
    /\ LET requiresLogin == CheckIfArticleRequiresLogin(ecDoc)
       IN /\ ecGate' = BoolStr(requiresLogin)
          /\ ecTrace' = Append(ecTrace, "gate")
          /\ ecPc' = IF requiresLogin THEN "returned" ELSE "selector"
          /\ ecResult' = null
    /\ UNCHANGED <<now, recentVars, selectorVars, ecDoc, ecSel, runVars>>

\* a mutant of SelectorOutcome: a restricted text is passed over like a short one
SelectorOutcomeSkipsRestricted(doc, i) ==
    IF ContentSelectors[i] \notin DOMAIN doc.contentEls
    THEN [decided |-> FALSE, value |-> null]
    ELSE LET text == Trim(doc.contentEls[ContentSelectors[i]])
         IN IF Truthy(text) /\ Len(text) > 50 /\ ~IsRestrictedContent(text)
            THEN [decided |-> TRUE, value |-> text]
            ELSE [decided |-> FALSE, value |-> null]

\* lines 453-483: one pass of the loop over contentSelectors, for selector number i:
\* whether it returned, and what
SelectorOutcome(doc, i) ==
    IF ContentSelectors[i] \notin DOMAIN doc.contentEls
    THEN [decided |-> FALSE, value |-> null]        \* waitForSelector throws: continue
    ELSE LET text == Trim(doc.contentEls[ContentSelectors[i]])
         IN IF Truthy(text) /\ Len(text) > 50
            THEN [decided |-> TRUE,
                  value |-> IF IsRestrictedContent(text) THEN null ELSE text]
            ELSE [decided |-> FALSE, value |-> null]

\* lines 452-484: the next content selector is waited for and read
TrySelector ==
    /\ ecPc = "selector"
    /\ LET r == SelectorOutcome(ecDoc, ecSel)
       IN /\ ecTrace' = Append(ecTrace, ContentSelectors[ecSel])
          /\ IF r.decided
             THEN /\ ecResult' = r.value
                  /\ ecPc' = "returned"
                  /\ ecSel' = ecSel
             ELSE /\ ecResult' = ecResult
                  /\ ecPc' = IF ecSel = Len(ContentSelectors) THEN "fallback" ELSE "selector"
                  /\ ecSel' = ecSel + 1
    /\ UNCHANGED <<now, recentVars, selectorVars, ecDoc, ecGate, runVars>>

\* lines 486-535: the generic containers, then `return null`
Fallback ==
    /\ ecPc = "fallback"
    /\ ecTrace' = Append(ecTrace, "fallback")
    /\ ecResult' = FallbackContent(ecDoc)
    /\ ecPc' = "returned"
    /\ UNCHANGED <<now, recentVars, selectorVars, ecDoc, ecSel, ecGate, runVars>>

NextContent == GateCheck \/ TrySelector \/ Fallback

SpecContent == InitContent /\ [][NextContent]_vars


-----------------------------------------------------------------------------
(* The deduplication step of trySelectors alone: lines 353-364 *)

\* an element of `articles` as line 344 pushes it
ListedArticle(headline, provider, timestamp, link, symbol) == [headline |-> headline, provider |-> provider, timestamp |-> timestamp, link |-> link, symbol |-> symbol]

\* contents of `articles` before line 353; the timestamps are date-time strings
\* (YYYY-MM and YYYY-MM-DD), the symbols come from a logo or from the sheet
ListedArticlePool ==
    { ListedArticle("Outlook", "Reuters", "2024-01-10", "/news/outlook", "AUTO"),
      ListedArticle("Outlook", "Unknown", "2024-01-10", "/news/outlook-2", "AUTO"),
      ListedArticle("Outlook", "Reuters", "2024-01", "/news/outlook-3", "10-AUTO"),
      ListedArticle("Rates on hold", "Reuters", "2024-01-10", "/news/rates", "AUTO"),
      ListedArticle("Rates on hold", "Reuters", "2024-01-10", "/news/rates-2", "BAJAJ-AUTO") }

\* the lists of at most n listed articles
RECURSIVE ListedArticleLists(_)
ListedArticleLists(n) ==
    IF n = 0 THEN {<<>>}
    ELSE ListedArticleLists(n - 1)
            \cup {Append(l, a) : l \in {m \in ListedArticleLists(n - 1) : Len(m) = n - 1},
                                 a \in ListedArticlePool}

InitDedupe ==
    /\ now = Clock0
    /\ RecentIdle
    /\ tsCards = <<>>
    /\ tsSymbol = ""
    /\ tsArticles \in ListedArticleLists(MaxCards)
    /\ tsResult = <<>>
    /\ tsCalled = FALSE
    /\ ContentIdle
    /\ RunIdle

\* lines 353-364: seenKeys, uniqueArticles and the loop over articles
CallDedupe ==
    /\ ~tsCalled
    /\ tsResult' = Dedupe(tsArticles)
    /\ tsCalled' = TRUE
    /\ UNCHANGED <<now, recentVars, tsCards, tsSymbol, tsArticles, contentVars, runVars>>

NextDedupe == CallDedupe

SpecDedupe == InitDedupe /\ [][NextDedupe]_vars
-----------------------------------------------------------------------------
(* Claims about checkIfArticleRequiresLogin and extractArticleContent *)

AllowListedNames == {"moneycontrol", "reuters", "business standard", "investing.com"}

\* some element matching [class*="provider"] names an allow-listed provider
AnyProviderAllowListed(doc) ==
    \E k \in 1..Len(doc.providerEls) :
        \E name \in AllowListedNames : Includes(ToLowerCase(doc.providerEls[k]), name)

\* the first element matching [class*="provider"] names an allow-listed provider
FirstProviderAllowListed(doc) ==
    /\ doc.providerEls /= <<>>
    /\ \E name \in AllowListedNames : Includes(ToLowerCase(doc.providerEls[1]), name)

\* C11: whenever any element matching the provider pattern names an allow-listed
\* provider, in any letter case, checkIfArticleRequiresLogin answers false,
\* whatever paywall phrases and paywall or login elements the document holds.
C11_AnyAllowListedProviderOpensGate ==
    (ecGate /= "none" /\ AnyProviderAllowListed(ecDoc)) => ecGate = "false"

\* C12: the access gate is the first thing extractArticleContent asks; when it
\* answers true the call has returned null and nothing but the gate was
\* queried: no content selector, no generic container; selectors and
\* containers are only ever queried behind a gate that answered false.
C12_GateFirstAndPositiveGateReturnsNull ==
    /\ ecTrace /= <<>> => ecTrace[1] = "gate"
    /\ ecGate = "none" => ecTrace = <<>>
    /\ ecGate = "true" =>
            /\ ecPc = "returned"
            /\ ecResult = null
            /\ ecTrace = <<"gate">>
    /\ ecPc \in {"selector", "fallback"} => ecGate = "false"

\* the gate answered true on a document whose first content selector holds a
\* readable body and whose <main> holds one too
C12_Witness ==
    /\ ecPc = "returned"
    /\ ecGate = "true"
    /\ ecResult = null
    /\ ".body-KX2tCBZq" \in DOMAIN ecDoc.contentEls
    /\ Len(ecDoc.contentEls[".body-KX2tCBZq"]) > 50
    /\ "main" \in DOMAIN ecDoc.containerEls

\* the element the selector matches holds more than 50 characters once trimmed
Qualifies(doc, selector) ==
    /\ selector \in DOMAIN doc.contentEls
    /\ Len(Trim(doc.contentEls[selector])) > 50

\* the position in contentSelectors of the first selector that qualifies, 0 when none does
FirstQualifying(doc) ==
    IF \E i \in 1..Len(ContentSelectors) : Qualifies(doc, ContentSelectors[i])
    THEN CHOOSE i \in 1..Len(ContentSelectors) :
            /\ Qualifies(doc, ContentSelectors[i])
            /\ \A j \in 1..(i - 1) : ~Qualifies(doc, ContentSelectors[j])
    ELSE 0

\* C13: behind an open gate the content selectors are queried in the order of
\* the registry, and none is queried after one that gave more than 50 trimmed
\* characters; the call returns at the first such selector, null when its text
\* holds a restricted phrase and the trimmed text itself otherwise, with no
\* fallback; selectors that are absent or short are passed over, and when no
\* selector qualifies all of them were queried before the fallback.
C13_FirstLongSelectorDecides ==
    /\ \A k \in 2..Len(ecTrace) :
            ecTrace[k] /= "fallback" =>
                /\ k - 1 <= Len(ContentSelectors)
                /\ ecTrace[k] = ContentSelectors[k - 1]
    /\ \A k \in 2..(Len(ecTrace) - 1) : ~Qualifies(ecDoc, ecTrace[k])
    /\ ecPc = "fallback" => ecTrace = <<"gate">> \o ContentSelectors
    /\ (ecPc = "returned" /\ ecGate = "false") =>
            LET f == FirstQualifying(ecDoc)
            IN IF f = 0
               THEN ecTrace = <<"gate">> \o ContentSelectors \o <<"fallback">>
               ELSE LET text == Trim(ecDoc.contentEls[ContentSelectors[f]])
                    IN /\ ecTrace = <<"gate">> \o SubSeq(ContentSelectors, 1, f)
                       /\ ecResult = IF IsRestrictedContent(text) THEN null ELSE text

\* the first selector is absent, the second holds 60 characters with a
\* restricted phrase: null is returned although a later selector and <main>
\* hold readable text
C13_Witness ==
    /\ ecPc = "returned"
    /\ ecGate = "false"
    /\ ecResult = null
    /\ ecTrace = <<"gate", ".body-KX2tCBZq", "div[class*=body-]">>
    /\ Len(Trim(ecDoc.contentEls["div[class*=body-]"])) = 60
    /\ Qualifies(ecDoc, "[itemprop=articleBody]")
    /\ "main" \in DOMAIN ecDoc.containerEls

\* C18: checkIfArticleRequiresLogin always answers; when one of its three page
\* evaluations throws it answers false; when none throws and the provider it
\* looked up is not allow-listed, it answers true exactly when the scan of the
\* visible texts or the scan for paywall and login elements is positive.
C18_GateIsEitherScanAndFailsOpen ==
    ecGate /= "none" =>
        /\ ecGate \in {"true", "false"}
        /\ ecPc \in {"returned", "selector", "fallback"}
        /\ ecDoc.gateThrows /= "none" => ecGate = "false"
        /\ (ecDoc.gateThrows = "none" /\ ~FirstProviderAllowListed(ecDoc)) =>
                (ecGate = "true" <=> (HasLoginIndicators(ecDoc) \/ HasLoginElements(ecDoc)))

\* a visible text holds a login phrase and the scan for login elements throws:
\* the gate answers false and the selectors are tried
C18_Witness ==
    /\ ecGate = "false"
    /\ ecPc = "selector"
    /\ ecDoc.gateThrows = "structural"
    /\ ~FirstProviderAllowListed(ecDoc)
    /\ \E k \in 1..Len(ecDoc.visibleTexts) :
            Includes(ToLowerCase(ecDoc.visibleTexts[k]), "members only")

\* C19: the deduplication step keeps every article whose (headline, timestamp,
\* symbol) triple differs from the triple of every earlier article of the same
\* extraction, whatever the strings are, '-' included.
C19_DedupeDropsOnlyIdenticalTriples ==
    tsCalled =>
        \A i \in 1..Len(tsArticles) :
            (\A j \in 1..(i - 1) : DedupTriple(tsArticles[j]) /= DedupTriple(tsArticles[i]))
                => \E k \in 1..Len(tsResult) : tsResult[k] = tsArticles[i]

\* C20: what extractArticleContent returns is null or a text of more than 50
\* characters without restricted phrase; the generic containers are queried
\* only after every content selector gave nothing longer than 50 characters,
\* and what they yield is null or a text of more than 100 characters without
\* restricted phrase; the value is the one the run gets for the document.
C20_ReturnedBodyLongAndUnrestricted ==
    /\ "fallback" \in {ecTrace[k] : k \in 1..Len(ecTrace)} =>
            /\ FirstQualifying(ecDoc) = 0
            /\ ecResult /= null => Len(ecResult) > 100
    /\ ecPc = "fallback" => FirstQualifying(ecDoc) = 0
    /\ ecResult /= null =>
            /\ ecPc = "returned"
            /\ Len(ecResult) > 50
            /\ \A phrase \in RestrictedPhrases : ~Includes(ToLowerCase(ecResult), phrase)
    /\ ecPc = "returned" =>
            /\ ecResult = ExtractArticleContent(ecDoc)
            /\ ecDoc \in ArticleDocPool => ecResult = ArticleDocTable[ecDoc].content

\* no content selector matches; <article> holds 80 characters and is passed
\* over, <main> holds 120 and is returned
C20_Witness ==
    /\ ecPc = "returned"
    /\ ecTrace = <<"gate">> \o ContentSelectors \o <<"fallback">>
    /\ "article" \in DOMAIN ecDoc.containerEls
    /\ Len(ecDoc.containerEls["article"]) = 80
    /\ ecResult = ecDoc.containerEls["main"]
    /\ Len(ecResult) = 120

-----------------------------------------------------------------------------
(* More claims about a run of scrapeTradingViewNews *)

\* C14: the next article of a stock begins only out of the pacing delay of
\* line 710, whatever became of the article before it.
C14_DelayBeforeEveryNextArticle ==
    [][(articleIdx' > articleIdx /\ pc' = "newPage") => pc = "articleDelay"]_vars

NonEmpty(v) == v /= null /\ v /= ""

HeadlineIndicators ==
    { "sign in to read exclusive news", "login to read", "subscribe to read",
      "premium content", "members only", "exclusive news", "requires subscription" }

\* the record has every field the claim names
WellFormedArticle(article) ==
    /\ NonEmpty(article.headline)
    /\ \A phrase \in HeadlineIndicators : ~Includes(ToLowerCase(article.headline), phrase)
    /\ NonEmpty(article.link)
    /\ NonEmpty(article.timestamp)
    /\ DateParse(article.timestamp).valid
    /\ NonEmpty(article.provider)

\* the records the forEach callback pushes for some card, symbol and clock of
\* the model, as far as they are well formed
WellFormedArticles ==
    { article \in { ExtractCardTable[c, s, t].article :
                        c \in CardPool, s \in SheetSymbols, t \in Clocks } :
            WellFormedArticle(article) }

\* C15: every article trySelectors returned to the run has a non-empty headline
\* without restricted phrase, a non-empty link, a non-empty provider and a
\* non-empty timestamp, which at the return was at most 3 days behind the
\* clock; the article loop never passes over an article for want of a link,
\* and the Provider of every POST is neither null nor empty.
C15_ListedArticlesWellFormedProviderNeverEmpty ==
    /\ [](/\ \A k \in 1..Len(articlesOnPage) : articlesOnPage[k] \in WellFormedArticles
          /\ art.request.sent => NonEmpty(art.request.Provider))
    /\ [][/\ articlesOnPage' /= articlesOnPage =>
                \A k \in 1..Len(articlesOnPage') :
                    now - DateParse(articlesOnPage'[k].timestamp).ms <= 3 * MsPerDay
          /\ articleIdx' > articleIdx => articleIdx' = articleIdx + 1
          /\ (pc' = "newPage" /\ pc /= "newPage") =>
                articleIdx' = IF pc = "extract" THEN 1 ELSE articleIdx + 1]_vars

\* a card without provider element was listed and its article published: the
\* record carries the sentinel
C15_Witness ==
    /\ art.request.sent
    /\ articlesOnPage[articleIdx].provider = "Unknown"
    /\ art.request.Provider = "Unknown"
    /\ Len(articlesOnPage) = 2
    /\ articleIdx = 2

-----------------------------------------------------------------------------
(* More claims about trySelectors *)

\* C16: for every card of the document, the headline, the provider and the
\* timestamp that the selector chains resolve to are each null or a non-empty
\* string, never "".
C16_ResolvedFieldNeverEmptyString ==
    tsCalled => \A k \in 1..Len(tsCards) :
        /\ ResolveHeadline(tsCards[k]) /= ""
        /\ ResolveProvider(tsCards[k]) /= ""
        /\ ResolveTimestamp(tsCards[k]) /= ""

\* C17: at any clock, a card that has a headline, a link and a non-empty
\* timestamp is kept by the page function exactly when isRecentArticle
\* (timestamp, 3) holds at that clock, that is when the whole-day age of the
\* timestamp is at most 3.
C17_ListingRecencyIsIsRecentArticleWindow3 ==
    tsCalled => \A k \in 1..Len(tsCards) :
        LET card == tsCards[k]
            headline == ResolveHeadline(card)
            timestamp == ResolveTimestamp(card)
        IN (/\ Truthy(headline)
            /\ ~IsRestrictedHeadline(headline)
            /\ Truthy(ResolveLink(card))
            /\ Truthy(timestamp))
           => (ExtractCardTable[card, tsSymbol, now].pushed
                    <=> IsRecentArticle(timestamp, 3, now))


-----------------------------------------------------------------------------
(* Termination of a run of scrapeTradingViewNews *)

\* a run in which every awaited call returns or fails: no step that can be
\* taken is put off for ever
SpecTermination == Init /\ [][Next]_vars /\ WF_vars(Next)

\* the promise of scrapeTradingViewNews is settled: it returned (lines 573,
\* 579, 724) or it rejected into the catch of line 726
Terminated == pc \in {"done", "crashed"}

RunTerminates == <>Terminated

BrowserClosedWhenTerminated == [](Terminated => ~browserOpen)

\* C21: every run over a finite list of stocks terminates, and whenever it has
\* terminated (empty list, sheet error, normal completion or a failing step)
\* the browser has been closed.
C21_RunTerminatesWithBrowserClosed ==
    RunTerminates /\ BrowserClosedWhenTerminated
====
